---- MODULE Spec2Model ----
(***************************************************************************)
(* Model of kernel/syscalls/syscalls_system_x86.cpp: the x86 ACPI S-state  *)
(* transition entry point arch_system_powerctl and its worker thread       *)
(* suspend_thread.  Every statement of the two functions that calls a      *)
(* collaborator is one action; collaborators (bootstrap16, ACPICA, the     *)
(* thread layer, the S-state primitive) answer nondeterministically.       *)
(***************************************************************************)
EXTENDS Integers, Sequences, FiniteSets, TLC

\* ---------------------------------------------------------------- bounds
MaxCmd == 3            \* commands 0..MaxCmd are tried
MaxSleepType == 1      \* sleep_type_a / sleep_type_b range over 0..MaxSleepType
NumCpus == 3           \* CPUs 0..NumCpus-1 may be online
MaxIp == 2             \* bootstrap entry addresses 1..MaxIp
MaxLiveSState == 7     \* target states 0..MaxLiveSState in the fair specification

\* ------------------------------------------------------------- constants
UINT8_MAX == 255
ZX_SYSTEM_POWERCTL_ACPI_TRANSITION_S_STATE == 3

Cmds == 0..MaxCmd
SStates == 0..UINT8_MAX
LiveSStates == 0..MaxLiveSState
SleepTypes == 0..MaxSleepType
Cpus == 0..(NumCpus - 1)
OnlineMasks == (SUBSET Cpus) \ {{}}
BootstrapIps == 1..MaxIp
AcquireErrors == {"ZX_ERR_NO_MEMORY", "ZX_ERR_INVALID_ARGS"}
AcpiStatuses == {"AE_OK", "AE_ERROR"}

VARIABLES
    pc,              \* position of the caller inside arch_system_powerctl
    cmd,             \* argument cmd
    target_s_state,  \* arg->acpi_transition_s_state.target_s_state
    sleep_type_a,    \* arg->acpi_transition_s_state.sleep_type_a
    sleep_type_b,    \* arg->acpi_transition_s_state.sleep_type_b
    online,          \* mp_get_online_mask()
    ret,             \* value returned by arch_system_powerctl
    tpc,             \* position of the suspend thread inside suspend_thread
    status,          \* suspend_thread: status of x86_bootstrap16_acquire
    facs,            \* suspend_thread: TRUE when AcpiGetTable gave a table
    acpi_status,     \* last ACPI_STATUS seen by the running function
    bootstrap_ip,    \* suspend_thread: entry address given by acquire
    bootstrap_cleanup,    \* the AutoCall of line 53 is armed
    wake_vector_cleanup,  \* the AutoCall of line 68 is armed
    retcode,         \* return value of suspend_thread
    registers_ptr,   \* bootstrap_data->registers_ptr is set to &regs
    bootstrapHeld,   \* the bootstrap16 resource is held
    wakeVector,      \* FACS firmware waking vector
    ints,            \* interrupts are enabled on this CPU
    assert_ok,       \* no DEBUG_ASSERT/ASSERT has failed
    transArgs,       \* arguments of the last x86_acpi_transition_s_state call
    failed,          \* the collaborator call of this request that reported failure
    trace            \* collaborator calls made for the current request

vars == <<pc, cmd, target_s_state, sleep_type_a, sleep_type_b, online, ret,
          tpc, status, facs, acpi_status, bootstrap_ip, bootstrap_cleanup,
          wake_vector_cleanup, retcode, registers_ptr, bootstrapHeld,
          wakeVector, ints, assert_ok, transArgs, failed, trace>>

callerVars == <<pc, cmd, target_s_state, sleep_type_a, sleep_type_b, online, ret>>
inputVars == <<cmd, target_s_state, sleep_type_a, sleep_type_b, online>>
threadLocals == <<status, facs, bootstrap_ip, bootstrap_cleanup,
                  wake_vector_cleanup, retcode>>

\* ---------------------------------------------------------------- helpers
Count(e) == Cardinality({i \in 1..Len(trace) : trace[i] = e})
FirstIdx(e) == CHOOSE i \in 1..Len(trace) : trace[i] = e /\ \A j \in 1..(i - 1) : trace[j] # e
Log(e) == trace' = Append(trace, e)

cpu_num_to_mask(n) == {n}

\* The interrupt flag a suspend, transition or restore primitive returns with:
\* the one it was called with (the resume leg comes back with interrupts
\* still disabled).
PrimitiveInts(i) == i

CmdSupportedAlways(c) == TRUE
\* line 106
CmdSupported(c) == c = ZX_SYSTEM_POWERCTL_ACPI_TRANSITION_S_STATE

BadSStateUpperOnly(ts) == ts > 5
\* line 113
BadSState(ts) == ts = 0 \/ ts > 5

TooManyCpusNoS5Bypass(ts, mask) == mask # cpu_num_to_mask(0)
TooManyCpusNever(ts, mask) == FALSE
TooManyCpusInverted(ts, mask) == ts # 5 /\ mask = cpu_num_to_mask(0)
\* line 119
TooManyCpus(ts, mask) == ts # 5 /\ mask # cpu_num_to_mask(0)

\* Where a return statement of suspend_thread goes: the armed AutoCalls run
\* in reverse order of construction (wake_vector_cleanup, bootstrap_cleanup).
UnwindFromSkipBootstrap(wakeArmed, bootArmed) ==
    IF wakeArmed THEN "unwind_wake" ELSE "exited"
UnwindFromBootstrapFirst(wakeArmed, bootArmed) ==
    IF bootArmed THEN "unwind_boot"
    ELSE IF wakeArmed THEN "unwind_wake" ELSE "exited"
UnwindFrom(wakeArmed, bootArmed) ==
    IF wakeArmed THEN "unwind_wake"
    ELSE IF bootArmed THEN "unwind_boot" ELSE "exited"

\* ------------------------------------------------------------------- Init
Init ==
    /\ pc = "idle"
    /\ cmd = 0 /\ target_s_state = 0 /\ sleep_type_a = 0 /\ sleep_type_b = 0
    /\ online = cpu_num_to_mask(0)
    /\ ret = "none"
    /\ tpc = "none"
    /\ status = "none" /\ facs = FALSE /\ acpi_status = "none"
    /\ bootstrap_ip = 0
    /\ bootstrap_cleanup = FALSE /\ wake_vector_cleanup = FALSE
    /\ retcode = "none"
    /\ registers_ptr = FALSE
    /\ bootstrapHeld = FALSE
    /\ wakeVector = 0
    /\ ints = TRUE
    /\ assert_ok = TRUE
    /\ transArgs = <<>>
    /\ failed = "none"
    /\ trace = <<>>

\* ------------------------------------------------- arch_system_powerctl
\* A caller enters arch_system_powerctl(cmd, arg).
CallWith(states) ==
    /\ pc = "idle"
    /\ \E c \in Cmds, ts \in states, a \in SleepTypes, b \in SleepTypes, m \in OnlineMasks :
         /\ cmd' = c /\ target_s_state' = ts
         /\ sleep_type_a' = a /\ sleep_type_b' = b /\ online' = m
    /\ pc' = "check_cmd"
    /\ UNCHANGED <<ret, tpc, threadLocals, acpi_status, registers_ptr,
                   bootstrapHeld, wakeVector, ints, assert_ok, transArgs, failed, trace>>

\* line 105, target_s_state any uint8_t
Call == CallWith(SStates)

\* line 105, target_s_state in and around the accepted range
CallLive == CallWith(LiveSStates)

\* lines 106-108
CheckCmd ==
    /\ pc = "check_cmd"
    /\ IF ~CmdSupported(cmd)
       THEN pc' = "done" /\ ret' = "ZX_ERR_NOT_SUPPORTED"
       ELSE pc' = "check_state" /\ ret' = ret
    /\ UNCHANGED <<inputVars, tpc, threadLocals, acpi_status, registers_ptr,
                   bootstrapHeld, wakeVector, ints, assert_ok, transArgs, failed, trace>>

\* lines 110-116
CheckSState ==
    /\ pc = "check_state"
    /\ IF BadSState(target_s_state)
       THEN pc' = "done" /\ ret' = "ZX_ERR_INVALID_ARGS"
       ELSE pc' = "check_cpus" /\ ret' = ret
    /\ UNCHANGED <<inputVars, tpc, threadLocals, acpi_status, registers_ptr,
                   bootstrapHeld, wakeVector, ints, assert_ok, transArgs, failed, trace>>

\* lines 118-126
CheckCpus ==
    /\ pc = "check_cpus"
    /\ IF TooManyCpus(target_s_state, online)
       THEN pc' = "done" /\ ret' = "ZX_ERR_BAD_STATE"
       ELSE /\ pc' = IF target_s_state < 5 THEN "thread_create" ELSE "s5_disable_ints"
            /\ ret' = ret
    /\ UNCHANGED <<inputVars, tpc, threadLocals, acpi_status, registers_ptr,
                   bootstrapHeld, wakeVector, ints, assert_ok, transArgs, failed, trace>>

ThreadCreateIgnoresNull ==
    /\ pc = "thread_create"
    /\ Log("thread_create")
    /\ \E created \in BOOLEAN :
         /\ failed' = IF created THEN failed ELSE "thread_create"
         /\ pc' = "thread_resume" /\ ret' = ret /\ tpc' = "created"
    /\ UNCHANGED <<inputVars, threadLocals, acpi_status, registers_ptr,
                   bootstrapHeld, wakeVector, ints, assert_ok, transArgs>>
\* lines 130-135
ThreadCreate ==
    /\ pc = "thread_create"
    /\ Log("thread_create")
    /\ \E created \in BOOLEAN :
         IF ~created
         THEN pc' = "done" /\ ret' = "ZX_ERR_NO_MEMORY" /\ tpc' = tpc /\ failed' = "thread_create"
         ELSE pc' = "thread_resume" /\ ret' = ret /\ tpc' = "created" /\ failed' = failed
    /\ UNCHANGED <<inputVars, threadLocals, acpi_status, registers_ptr,
                   bootstrapHeld, wakeVector, ints, assert_ok, transArgs>>

ThreadResumeSkipped ==
    /\ pc = "thread_resume"
    /\ pc' = "thread_join"
    /\ UNCHANGED <<inputVars, ret, tpc, threadLocals, acpi_status, registers_ptr,
                   bootstrapHeld, wakeVector, ints, assert_ok, transArgs, failed, trace>>
\* lines 137-138
ThreadResume ==
    /\ pc = "thread_resume"
    /\ Log("thread_resume")
    /\ tpc' = "acquire"
    /\ pc' = "thread_join"
    /\ UNCHANGED <<inputVars, ret, threadLocals, acpi_status, registers_ptr,
                   bootstrapHeld, wakeVector, ints, assert_ok, transArgs, failed>>

ThreadJoinNoWait ==
    /\ pc = "thread_join"
    /\ Log("thread_join")
    /\ ret' = IF retcode # "ZX_OK" THEN retcode ELSE "ZX_OK"
    /\ pc' = "done"
    /\ UNCHANGED <<inputVars, tpc, threadLocals, acpi_status, registers_ptr,
                   bootstrapHeld, wakeVector, ints, assert_ok, transArgs, failed>>
\* lines 140-146 and 161: thread_join blocks until the thread has exited
ThreadJoin ==
    /\ pc = "thread_join"
    /\ tpc = "exited"
    /\ Log("thread_join")
    /\ ret' = IF retcode # "ZX_OK" THEN retcode ELSE "ZX_OK"
    /\ pc' = "done"
    /\ UNCHANGED <<inputVars, tpc, threadLocals, acpi_status, registers_ptr,
                   bootstrapHeld, wakeVector, ints, assert_ok, transArgs, failed>>

\* lines 150-151
S5DisableInts ==
    /\ pc = "s5_disable_ints"
    /\ assert_ok' = (assert_ok /\ target_s_state = 5)
    /\ Log("disable_ints")
    /\ ints' = FALSE
    /\ pc' = "s5_transition"
    /\ UNCHANGED <<inputVars, ret, tpc, threadLocals, acpi_status, registers_ptr,
                   bootstrapHeld, wakeVector, transArgs, failed>>

\* lines 153-154
S5Transition ==
    /\ pc = "s5_transition"
    /\ Log("transition")
    /\ transArgs' = <<target_s_state, sleep_type_a, sleep_type_b>>
    /\ \E st \in AcpiStatuses :
         /\ acpi_status' = st
         /\ failed' = IF st # "AE_OK" THEN "transition" ELSE failed
    /\ pc' = "s5_enable_ints"
    /\ ints' = PrimitiveInts(ints)
    /\ UNCHANGED <<inputVars, ret, tpc, threadLocals, registers_ptr,
                   bootstrapHeld, wakeVector, assert_ok>>

S5EnableIntsOnFailureOnly ==
    /\ pc = "s5_enable_ints"
    /\ IF acpi_status # "AE_OK"
       THEN Log("enable_ints") /\ ints' = TRUE
       ELSE UNCHANGED <<trace, ints>>
    /\ pc' = "s5_check"
    /\ UNCHANGED <<inputVars, ret, tpc, threadLocals, acpi_status, registers_ptr,
                   bootstrapHeld, wakeVector, assert_ok, transArgs, failed>>
\* line 155
S5EnableInts ==
    /\ pc = "s5_enable_ints"
    /\ Log("enable_ints")
    /\ ints' = TRUE
    /\ pc' = "s5_check"
    /\ UNCHANGED <<inputVars, ret, tpc, threadLocals, acpi_status, registers_ptr,
                   bootstrapHeld, wakeVector, assert_ok, transArgs, failed>>

\* lines 156-161
S5Check ==
    /\ pc = "s5_check"
    /\ ret' = IF acpi_status # "AE_OK" THEN "ZX_ERR_INTERNAL" ELSE "ZX_OK"
    /\ pc' = "done"
    /\ UNCHANGED <<inputVars, tpc, threadLocals, acpi_status, registers_ptr,
                   bootstrapHeld, wakeVector, ints, assert_ok, transArgs, failed, trace>>

\* The status has been handed to the caller and the frames of the request are
\* gone; what stays is the machine: the FACS field, the bootstrap resource,
\* the interrupt flag.  The next request may come.
Return ==
    /\ pc = "done"
    /\ pc' = "idle"
    /\ cmd' = 0 /\ target_s_state' = 0 /\ sleep_type_a' = 0 /\ sleep_type_b' = 0
    /\ online' = cpu_num_to_mask(0)
    /\ ret' = "none"
    /\ tpc' = "none"
    /\ status' = "none" /\ facs' = FALSE /\ acpi_status' = "none"
    /\ bootstrap_ip' = 0
    /\ bootstrap_cleanup' = FALSE /\ wake_vector_cleanup' = FALSE
    /\ retcode' = "none"
    /\ transArgs' = <<>>
    /\ failed' = "none"
    /\ trace' = <<>>
    /\ UNCHANGED <<registers_ptr, bootstrapHeld, wakeVector, ints, assert_ok>>

\* ---------------------------------------------------------- suspend_thread
\* A return statement of suspend_thread with value v.
ThreadReturn(v) ==
    /\ retcode' = v
    /\ tpc' = UnwindFrom(wake_vector_cleanup', bootstrap_cleanup')

\* lines 46-55
Acquire ==
    /\ tpc = "acquire"
    /\ Log("acquire")
    /\ \/ \E err \in AcquireErrors :
            /\ status' = err
            /\ failed' = "acquire"
            /\ UNCHANGED <<bootstrap_ip, bootstrapHeld, bootstrap_cleanup, wake_vector_cleanup>>
            /\ ThreadReturn(err)
       \/ \E ip \in BootstrapIps :
            /\ status' = "ZX_OK"
            /\ failed' = failed
            /\ bootstrap_ip' = ip
            /\ bootstrapHeld' = TRUE
            /\ bootstrap_cleanup' = TRUE
            /\ tpc' = "get_table"
            /\ UNCHANGED <<retcode, wake_vector_cleanup>>
    /\ UNCHANGED <<callerVars, facs, acpi_status, registers_ptr, wakeVector,
                   ints, assert_ok, transArgs>>

\* lines 58-63
GetTable ==
    /\ tpc = "get_table"
    /\ Log("get_table")
    /\ \/ /\ acpi_status' = "AE_OK"
          /\ facs' = TRUE
          /\ failed' = failed
          /\ tpc' = "set_vector"
          /\ UNCHANGED retcode
       \/ /\ acpi_status' = "AE_ERROR"
          /\ facs' = FALSE
          /\ failed' = "get_table"
          /\ UNCHANGED <<bootstrap_cleanup, wake_vector_cleanup>>
          /\ ThreadReturn("ZX_ERR_BAD_STATE")
    /\ UNCHANGED <<callerVars, status, bootstrap_ip, bootstrap_cleanup,
                   wake_vector_cleanup, registers_ptr, bootstrapHeld, wakeVector,
                   ints, assert_ok, transArgs>>

\* lines 64-70; a call that reports failure may or may not have written the field
SetWakingVector ==
    /\ tpc = "set_vector"
    /\ Log("set_vector")
    /\ \/ /\ acpi_status' = "AE_OK"
          /\ wakeVector' = bootstrap_ip
          /\ wake_vector_cleanup' = TRUE
          /\ failed' = failed
          /\ tpc' = "record_regs"
          /\ UNCHANGED retcode
       \/ /\ acpi_status' = "AE_ERROR"
          /\ failed' = "set_vector"
          /\ \E wrote \in BOOLEAN : wakeVector' = IF wrote THEN bootstrap_ip ELSE wakeVector
          /\ UNCHANGED <<bootstrap_cleanup, wake_vector_cleanup>>
          /\ ThreadReturn("ZX_ERR_BAD_STATE")
    /\ UNCHANGED <<callerVars, status, facs, bootstrap_ip, bootstrap_cleanup,
                   registers_ptr, bootstrapHeld, ints, assert_ok, transArgs>>

RecordRegsSkipped ==
    /\ tpc = "record_regs"
    /\ tpc' = "disable_ints"
    /\ UNCHANGED <<callerVars, threadLocals, acpi_status, registers_ptr, bootstrapHeld,
                   wakeVector, ints, assert_ok, transArgs, failed, trace>>
\* line 72
RecordRegs ==
    /\ tpc = "record_regs"
    /\ registers_ptr' = TRUE
    /\ tpc' = "disable_ints"
    /\ UNCHANGED <<callerVars, threadLocals, acpi_status, bootstrapHeld,
                   wakeVector, ints, assert_ok, transArgs, failed, trace>>

DisableIntsSkipped ==
    /\ tpc = "disable_ints"
    /\ tpc' = "platform_suspend"
    /\ UNCHANGED <<callerVars, threadLocals, acpi_status, registers_ptr,
                   bootstrapHeld, wakeVector, ints, assert_ok, transArgs, failed, trace>>
\* line 74
DisableInts ==
    /\ tpc = "disable_ints"
    /\ Log("disable_ints")
    /\ ints' = FALSE
    /\ tpc' = "platform_suspend"
    /\ UNCHANGED <<callerVars, threadLocals, acpi_status, registers_ptr,
                   bootstrapHeld, wakeVector, assert_ok, transArgs, failed>>

\* A collaborator call that only has to be recorded, then control moves on.
PlainCall(at, name, next) ==
    /\ tpc = at
    /\ Log(name)
    /\ tpc' = next
    /\ ints' = PrimitiveInts(ints)
    /\ UNCHANGED <<callerVars, threadLocals, acpi_status, registers_ptr,
                   bootstrapHeld, wakeVector, assert_ok, transArgs, failed>>

\* line 77
PlatformSuspend == PlainCall("platform_suspend", "platform_suspend", "arch_suspend")

\* line 78
ArchSuspend == PlainCall("arch_suspend", "arch_suspend", "transition")

\* lines 82-83
Transition ==
    /\ tpc = "transition"
    /\ Log("transition")
    /\ transArgs' = <<target_s_state, sleep_type_a, sleep_type_b>>
    /\ \E st \in AcpiStatuses :
         /\ acpi_status' = st
         /\ failed' = IF st # "AE_OK" THEN "transition" ELSE failed
    /\ tpc' = "transition_check"
    /\ ints' = PrimitiveInts(ints)
    /\ UNCHANGED <<callerVars, threadLocals, registers_ptr, bootstrapHeld,
                   wakeVector, assert_ok>>

TransitionCheckNoEnableInts ==
    /\ tpc = "transition_check"
    /\ IF acpi_status # "AE_OK"
       THEN /\ UNCHANGED <<trace, ints, assert_ok, bootstrap_cleanup, wake_vector_cleanup>>
            /\ ThreadReturn("ZX_ERR_INTERNAL")
       ELSE /\ assert_ok' = (assert_ok /\ ~ints)
            /\ tpc' = "arch_resume"
            /\ UNCHANGED <<trace, ints, retcode, bootstrap_cleanup, wake_vector_cleanup>>
    /\ UNCHANGED <<callerVars, status, facs, bootstrap_ip, acpi_status,
                   registers_ptr, bootstrapHeld, wakeVector, transArgs, failed>>
TransitionCheckIgnoresStatus ==
    /\ tpc = "transition_check"
    /\ assert_ok' = (assert_ok /\ ~ints)
    /\ tpc' = "arch_resume"
    /\ UNCHANGED <<trace, ints, retcode, bootstrap_cleanup, wake_vector_cleanup>>
    /\ UNCHANGED <<callerVars, status, facs, bootstrap_ip, acpi_status,
                   registers_ptr, bootstrapHeld, wakeVector, transArgs, failed>>
\* lines 84-92
TransitionCheck ==
    /\ tpc = "transition_check"
    /\ IF acpi_status # "AE_OK"
       THEN /\ Log("enable_ints")
            /\ ints' = TRUE
            /\ UNCHANGED <<assert_ok, bootstrap_cleanup, wake_vector_cleanup>>
            /\ ThreadReturn("ZX_ERR_INTERNAL")
       ELSE /\ assert_ok' = (assert_ok /\ ~ints)
            /\ tpc' = "arch_resume"
            /\ UNCHANGED <<trace, ints, retcode, bootstrap_cleanup, wake_vector_cleanup>>
    /\ UNCHANGED <<callerVars, status, facs, bootstrap_ip, acpi_status,
                   registers_ptr, bootstrapHeld, wakeVector, transArgs, failed>>

\* line 94
ArchResume == PlainCall("arch_resume", "arch_resume", "platform_resume")

\* line 95
PlatformResume == PlainCall("platform_resume", "platform_resume", "timer_thaw")

\* line 96
TimerThaw == PlainCall("timer_thaw", "timer_thaw_percpu", "enable_ints")

EnableIntsAndReturnNoEnable ==
    /\ tpc = "enable_ints"
    /\ assert_ok' = (assert_ok /\ ~ints)
    /\ UNCHANGED <<bootstrap_cleanup, wake_vector_cleanup>>
    /\ ThreadReturn("ZX_OK")
    /\ UNCHANGED <<callerVars, status, facs, bootstrap_ip, acpi_status, ints, trace,
                   registers_ptr, bootstrapHeld, wakeVector, transArgs, failed>>
\* lines 98-100
EnableIntsAndReturn ==
    /\ tpc = "enable_ints"
    /\ assert_ok' = (assert_ok /\ ~ints)
    /\ Log("enable_ints")
    /\ ints' = TRUE
    /\ UNCHANGED <<bootstrap_cleanup, wake_vector_cleanup>>
    /\ ThreadReturn("ZX_OK")
    /\ UNCHANGED <<callerVars, status, facs, bootstrap_ip, acpi_status,
                   registers_ptr, bootstrapHeld, wakeVector, transArgs, failed>>

\* lines 68-70: wake_vector_cleanup runs at scope exit
WakeVectorCleanup ==
    /\ tpc = "unwind_wake"
    /\ Log("clear_vector")
    /\ wakeVector' = 0
    /\ wake_vector_cleanup' = FALSE
    /\ tpc' = UnwindFrom(FALSE, bootstrap_cleanup)
    /\ UNCHANGED <<callerVars, status, facs, bootstrap_ip, bootstrap_cleanup,
                   retcode, acpi_status, registers_ptr, bootstrapHeld, ints,
                   assert_ok, transArgs, failed>>

\* lines 53-55: bootstrap_cleanup runs at scope exit
BootstrapCleanup ==
    /\ tpc = "unwind_boot"
    /\ Log("release")
    /\ bootstrapHeld' = FALSE
    /\ registers_ptr' = FALSE
    /\ bootstrap_cleanup' = FALSE
    /\ tpc' = UnwindFrom(wake_vector_cleanup, FALSE)
    /\ UNCHANGED <<callerVars, status, facs, bootstrap_ip, wake_vector_cleanup,
                   retcode, acpi_status, wakeVector, ints, assert_ok, transArgs, failed>>

\* ------------------------------------------------------------ specification
Next ==
    \/ Call
    \/ CheckCmd
    \/ CheckSState
    \/ CheckCpus
    \/ ThreadCreate
    \/ ThreadResume
    \/ ThreadJoin
    \/ S5DisableInts
    \/ S5Transition
    \/ S5EnableInts
    \/ S5Check
    \/ Return
    \/ Acquire
    \/ GetTable
    \/ SetWakingVector
    \/ RecordRegs
    \/ DisableInts
    \/ PlatformSuspend
    \/ ArchSuspend
    \/ Transition
    \/ TransitionCheck
    \/ ArchResume
    \/ PlatformResume
    \/ TimerThaw
    \/ EnableIntsAndReturn
    \/ WakeVectorCleanup
    \/ BootstrapCleanup

Spec == Init /\ [][Next]_vars

\* Every step of a request except its arrival: a running function goes on to
\* its next statement, a called collaborator returns, the highest-priority
\* suspend thread is scheduled.
Running ==
    \/ CheckCmd \/ CheckSState \/ CheckCpus
    \/ ThreadCreate \/ ThreadResume \/ ThreadJoin
    \/ S5DisableInts \/ S5Transition \/ S5EnableInts \/ S5Check
    \/ Acquire \/ GetTable \/ SetWakingVector \/ RecordRegs \/ DisableInts
    \/ PlatformSuspend \/ ArchSuspend \/ Transition \/ TransitionCheck
    \/ ArchResume \/ PlatformResume \/ TimerThaw \/ EnableIntsAndReturn
    \/ WakeVectorCleanup \/ BootstrapCleanup

LiveNext == CallLive \/ Running \/ Return

LiveSpec == Init /\ [][LiveNext]_vars /\ WF_vars(Running)

TypeOK ==
    /\ pc \in {"idle", "check_cmd", "check_state", "check_cpus", "thread_create",
               "thread_resume", "thread_join", "s5_disable_ints", "s5_transition",
               "s5_enable_ints", "s5_check", "done"}
    /\ tpc \in {"none", "created", "acquire", "get_table", "set_vector",
                "record_regs", "disable_ints", "platform_suspend", "arch_suspend",
                "transition", "transition_check", "arch_resume", "platform_resume",
                "timer_thaw", "enable_ints", "unwind_wake", "unwind_boot", "exited"}
    /\ cmd \in Cmds /\ target_s_state \in SStates
    /\ sleep_type_a \in SleepTypes /\ sleep_type_b \in SleepTypes
    /\ online \in OnlineMasks
    /\ wakeVector \in {0} \cup BootstrapIps
    /\ ints \in BOOLEAN /\ bootstrapHeld \in BOOLEAN

\* ------------------------------------------------------------------ claims
Recognised == cmd = ZX_SYSTEM_POWERCTL_ACPI_TRANSITION_S_STATE
InRequest == pc # "idle"
Resumable == target_s_state \in 1..4
ThreadExited == tpc = "exited"
AcquireSucceeded == Count("acquire") = 1 /\ failed # "acquire"
SetSucceeded == Count("set_vector") = 1 /\ failed # "set_vector"
\* No collaborator has been called and nothing of the machine was touched.
NoEffect == trace = <<>> /\ tpc = "none" /\ ints /\ transArgs = <<>>

\* C1: in a resumable attempt x86_bootstrap16_release is never called more
\* than once and never without a successful acquire, and when suspend_thread
\* has returned it was called exactly once iff acquire succeeded, whichever
\* exit was taken; the resource is then no longer held.
C1_ReleasedOnceIffAcquired ==
    /\ Count("release") <= 1
    /\ (Count("release") = 1 => AcquireSucceeded)
    /\ (ThreadExited =>
          /\ (AcquireSucceeded <=> Count("release") = 1)
          /\ ~bootstrapHeld)

C1_Witness ==
    /\ ThreadExited
    /\ failed = "transition"
    /\ retcode = "ZX_ERR_INTERNAL"
    /\ Count("release") = 1

\* C2: when a resumable attempt returns its outcome the firmware wake vector
\* is zero, on every exit path (acquire failure, lookup failure, set failure
\* that left the field written, firmware rejection, successful resume).
C2_WakeVectorClearedAtExit == ThreadExited => wakeVector = 0

\* C3 (as claimed): every exit of suspend_thread runs the same unwind: the
\* wake-vector clear call and the bootstrap release call are both invoked, so
\* set/clear and acquire/release are called equally often.
C3_SameUnwindOnEveryExit ==
    ThreadExited =>
        /\ Count("clear_vector") = 1
        /\ Count("set_vector") = Count("clear_vector")
        /\ Count("acquire") = Count("release")

\* C3 (amended): every exit of suspend_thread unwinds exactly the guards that
\* were armed: the clear call is invoked once iff the set call succeeded, the
\* release call once iff acquire succeeded, and the clear call comes before
\* the release call with nothing after the release.
C3_UnwindsArmedGuards ==
    ThreadExited =>
        /\ Count("clear_vector") = (IF SetSucceeded THEN 1 ELSE 0)
        /\ Count("release") = (IF AcquireSucceeded THEN 1 ELSE 0)
        /\ (Count("release") = 1 =>
               \A i \in (FirstIdx("release") + 1)..Len(trace) : trace[i] = "thread_join")
        /\ (Count("clear_vector") = 1 =>
               /\ Count("release") = 1
               /\ FirstIdx("clear_vector") + 1 = FirstIdx("release"))

C3_Witness ==
    /\ ThreadExited
    /\ SetSucceeded
    /\ retcode = "ZX_OK"
    /\ Count("clear_vector") = 1
    /\ Count("release") = 1

\* C4: for the recognised command and a target_s_state outside 1..5 the
\* entry point returns ZX_ERR_INVALID_ARGS and nothing else happens: no
\* thread, no acquire, no wake-vector call, no interrupt masking, no
\* hardware transition.
C4_BadSStateRejected ==
    (InRequest /\ Recognised /\ target_s_state \notin 1..5) =>
        /\ NoEffect
        /\ pc \in {"check_cmd", "check_state", "done"}
        /\ (pc = "done" => ret = "ZX_ERR_INVALID_ARGS")

C4_Witness ==
    /\ pc = "done"
    /\ Recognised
    /\ target_s_state = 6
    /\ ret = "ZX_ERR_INVALID_ARGS"

\* C5: for target_s_state in 1..4 with more than one unit online the entry
\* point returns ZX_ERR_BAD_STATE without creating the thread, acquiring the
\* bootstrap resource or invoking the hardware transition.
C5_MultiCoreRejected ==
    (InRequest /\ Recognised /\ Resumable /\ Cardinality(online) > 1) =>
        /\ NoEffect
        /\ pc \in {"check_cmd", "check_state", "check_cpus", "done"}
        /\ (pc = "done" => ret = "ZX_ERR_BAD_STATE")

C5_Witness ==
    /\ pc = "done"
    /\ Recognised
    /\ target_s_state = 2
    /\ Cardinality(online) = 2
    /\ ret = "ZX_ERR_BAD_STATE"

\* C6 (as claimed): for target_s_state in 1..4, whenever exactly one unit is
\* online, whichever it is, the entry point goes on to create the thread.
C6_AnySingleCpuAccepted ==
    (pc = "done" /\ Recognised /\ Resumable /\ Cardinality(online) = 1) =>
        Count("thread_create") = 1

\* C6 (amended): for target_s_state in 1..4 the topology check lets the
\* request through exactly when the online set is CPU 0 alone: then
\* thread_create is called; any other online set, a single unit other than
\* CPU 0 included, is rejected with ZX_ERR_BAD_STATE and no effect.
C6_OnlyCpu0Accepted ==
    (pc = "done" /\ Recognised /\ Resumable) =>
        /\ (online = cpu_num_to_mask(0) <=> Count("thread_create") = 1)
        /\ (online # cpu_num_to_mask(0) => ret = "ZX_ERR_BAD_STATE" /\ NoEffect)

C6_Witness ==
    /\ pc = "thread_join"
    /\ Recognised
    /\ Resumable
    /\ online = cpu_num_to_mask(0)
    /\ tpc = "acquire"

\* C7: for target_s_state 5 the topology check is bypassed: whatever units
\* are online the hardware transition primitive is invoked (once, with the
\* request's parameters) and the entry point never returns ZX_ERR_BAD_STATE.
C7_ShutdownBypassesCpuCheck ==
    /\ (InRequest /\ Recognised /\ target_s_state = 5) => ret # "ZX_ERR_BAD_STATE"
    /\ (pc = "done" /\ Recognised /\ target_s_state = 5) =>
          /\ Count("transition") = 1
          /\ transArgs = <<5, sleep_type_a, sleep_type_b>>
          /\ tpc = "none"

C7_Witness ==
    /\ pc = "done"
    /\ Recognised
    /\ target_s_state = 5
    /\ Cardinality(online) > 1
    /\ Count("transition") = 1

\* C8: a command other than the recognised one is rejected with
\* ZX_ERR_NOT_SUPPORTED whatever the target state and the online set, before
\* any other effect.
C8_UnknownCommandRejected ==
    (InRequest /\ ~Recognised) =>
        /\ NoEffect
        /\ pc \in {"check_cmd", "done"}
        /\ (pc = "done" => ret = "ZX_ERR_NOT_SUPPORTED")

C8_Witness ==
    /\ pc = "done"
    /\ ~Recognised
    /\ target_s_state = 3
    /\ online = cpu_num_to_mask(0)
    /\ ret = "ZX_ERR_NOT_SUPPORTED"

\* C9: on the shutdown path (target_s_state 5) any return of the hardware
\* transition primitive, with a failure status or a success status, makes
\* the entry point return ZX_ERR_INTERNAL, never success.
C9_ShutdownReturnIsFailure ==
    (pc = "done" /\ Recognised /\ target_s_state = 5) => ret = "ZX_ERR_INTERNAL"

\* C10 (as claimed): on the shutdown path interrupts are re-enabled after
\* the hardware transition call iff the call failed.
C10_IntsEnabledIffFailed ==
    (pc = "done" /\ Recognised /\ target_s_state = 5) =>
        (ints <=> acpi_status # "AE_OK")

\* C10 (amended): on the shutdown path interrupts are masked before the
\* hardware transition primitive is invoked and stay masked during it, and
\* they are re-enabled after it whatever status it reports: when the entry
\* point returns interrupts are enabled.
C10_IntsMaskedThenAlwaysEnabled ==
    /\ (pc \in {"s5_transition", "s5_enable_ints"} => ~ints)
    /\ (pc \in {"s5_check", "done"} /\ Recognised /\ target_s_state = 5) =>
          /\ ints
          /\ trace = <<"disable_ints", "transition", "enable_ints">>

C10_Witness ==
    /\ pc = "done"
    /\ Recognised
    /\ target_s_state = 5
    /\ acpi_status = "AE_OK"
    /\ ints

RestoreCalls == {"arch_resume", "platform_resume", "timer_thaw_percpu"}
NoRestoreRun == \A i \in 1..Len(trace) : trace[i] \notin RestoreCalls

\* C11: on the resumable path, when the hardware transition primitive
\* returns a non-success status, suspend_thread returns ZX_ERR_INTERNAL with
\* interrupts re-enabled, none of arch_resume, platform_resume and
\* timer_thaw_percpu has run, and the wake vector was cleared and then the
\* bootstrap resource released before the outcome is returned.
C11_FirmwareRejection ==
    (Resumable /\ failed = "transition") =>
        /\ NoRestoreRun
        /\ (tpc \in {"unwind_wake", "unwind_boot", "exited"} =>
              ints /\ retcode = "ZX_ERR_INTERNAL")
        /\ (ThreadExited =>
              /\ Count("clear_vector") = 1
              /\ Count("release") = 1
              /\ FirstIdx("transition") < FirstIdx("clear_vector")
              /\ FirstIdx("clear_vector") < FirstIdx("release")
              /\ wakeVector = 0
              /\ ~bootstrapHeld)
        /\ (pc = "done" => ret = "ZX_ERR_INTERNAL")

C11_Witness ==
    /\ pc = "done"
    /\ Resumable
    /\ failed = "transition"
    /\ ret = "ZX_ERR_INTERNAL"
    /\ wakeVector = 0
    /\ ints

\* C12: for target_s_state in 1..4 with the topology check passed, when
\* thread_create gives no thread the entry point returns ZX_ERR_NO_MEMORY
\* and no orchestrator work has started: thread_create is the only
\* collaborator call, the thread never runs, interrupts were not masked and
\* the hardware transition was not invoked.
C12_ThreadCreateFailure ==
    failed = "thread_create" =>
        /\ Recognised /\ Resumable /\ online = cpu_num_to_mask(0)
        /\ pc = "done"
        /\ ret = "ZX_ERR_NO_MEMORY"
        /\ trace = <<"thread_create">>
        /\ tpc = "none"
        /\ ints
        /\ transArgs = <<>>

C12_Witness ==
    /\ pc = "done"
    /\ failed = "thread_create"
    /\ target_s_state = 4
    /\ ret = "ZX_ERR_NO_MEMORY"

ThreadOutcomes == {"ZX_OK", "ZX_ERR_BAD_STATE", "ZX_ERR_INTERNAL"} \cup AcquireErrors

\* C13: for every accepted resumable request the entry point creates and
\* starts exactly one suspend thread, returns only after that thread has
\* exited, and returns the thread's outcome unchanged: ZX_OK when no
\* collaborator failed, otherwise acquire's error status, ZX_ERR_BAD_STATE
\* (lookup or set failure) or ZX_ERR_INTERNAL (firmware rejection).
C13_JoinPropagatesOutcome ==
    /\ Count("thread_create") <= 1 /\ Count("thread_resume") <= 1
    /\ (tpc # "none" => Count("thread_create") = 1 /\ Resumable)
    /\ (pc = "done" /\ Count("thread_resume") = 1) =>
          /\ ThreadExited
          /\ Count("thread_create") = 1
          /\ ret = retcode
          /\ ret \in ThreadOutcomes
          /\ (failed = "none" <=> ret = "ZX_OK")
          /\ (failed = "acquire" => ret = status /\ ret \in AcquireErrors)
          /\ (failed \in {"get_table", "set_vector"} => ret = "ZX_ERR_BAD_STATE")
          /\ (failed = "transition" => ret = "ZX_ERR_INTERNAL")

C13_Witness ==
    /\ pc = "done"
    /\ target_s_state = 3 /\ sleep_type_a = 1 /\ sleep_type_b = 0
    /\ online = cpu_num_to_mask(0)
    /\ ThreadExited
    /\ failed = "none"
    /\ ret = "ZX_OK"

RestoreIdx == {i \in 1..Len(trace) : trace[i] \in RestoreCalls}

\* C14: arch_resume, platform_resume and timer_thaw_percpu run only after
\* the hardware transition primitive has returned success, interrupts are
\* disabled when each of them runs, and all of them have completed before
\* the wake vector is cleared and before the bootstrap resource is released.
C14_RestoreAfterResumeBeforeUnwind ==
    /\ (tpc \in {"arch_resume", "platform_resume", "timer_thaw"} =>
          /\ ~ints
          /\ Count("transition") = 1 /\ acpi_status = "AE_OK" /\ failed = "none"
          /\ Count("clear_vector") = 0 /\ Count("release") = 0
          /\ bootstrapHeld /\ wakeVector = bootstrap_ip)
    /\ (RestoreIdx # {} =>
          /\ failed = "none"
          /\ Count("transition") = 1
          /\ \A i \in RestoreIdx :
                /\ FirstIdx("transition") < i
                /\ (Count("clear_vector") > 0 => i < FirstIdx("clear_vector"))
                /\ (Count("release") > 0 => i < FirstIdx("release")))
    /\ (ThreadExited /\ failed = "none" =>
          \A c \in RestoreCalls : Count(c) = 1)

C14_Witness ==
    /\ ThreadExited
    /\ pc = "thread_join"
    /\ Count("timer_thaw_percpu") = 1
    /\ Count("clear_vector") = 1
    /\ Count("release") = 1

SuspendWindow == {"platform_suspend", "arch_suspend", "transition",
                  "transition_check", "arch_resume", "platform_resume",
                  "timer_thaw", "enable_ints"}

\* C15: in a resumable attempt interrupts are disabled from before
\* platform_suspend is called until timer_thaw_percpu has returned (or, on
\* firmware rejection, until the hardware transition primitive has
\* returned), and neither DEBUG_ASSERT(arch_ints_disabled()) ever fails.
C15_IntsDisabledInWindow ==
    /\ (tpc \in SuspendWindow => ~ints)
    /\ assert_ok

C15_Witness ==
    /\ tpc = "enable_ints"
    /\ ~ints
    /\ assert_ok
    /\ Count("timer_thaw_percpu") = 1

\* C16: the wake vector's lifetime is nested inside the bootstrap resource's
\* lifetime: there is no reachable state in which the wake vector is
\* non-zero while the bootstrap resource is not held.
C16_WakeVectorNestedInBootstrap == wakeVector # 0 => bootstrapHeld

\* C17: requests issued one after another are independent: when the suspend
\* thread of any attempt starts, no bootstrap resource is held and the wake
\* vector is cleared, whatever the outcome of the attempt before.
C17_AttemptStartsClean ==
    tpc = "acquire" => (~bootstrapHeld /\ wakeVector = 0)

EarlyFailures == {"acquire", "get_table", "set_vector"}

\* C19: for target_s_state in 1..4 the hardware transition primitive is
\* invoked at most once per request, with the request's parameters, and only
\* when fully armed: bootstrap held, wake table found, wake vector equal to
\* the bootstrap entry address, register-capture address recorded,
\* interrupts disabled, platform_suspend then arch_suspend done; never after
\* a failure of acquire, lookup or set.
C19_TransitionOnlyWhenArmed ==
    /\ Count("transition") <= 1
    /\ (failed \in EarlyFailures => Count("transition") = 0)
    /\ (Resumable /\ tpc \in {"transition", "transition_check"}) =>
          /\ bootstrapHeld /\ status = "ZX_OK"
          /\ facs
          /\ bootstrap_ip \in BootstrapIps /\ wakeVector = bootstrap_ip
          /\ registers_ptr
          /\ ~ints
          /\ Count("disable_ints") = 1
          /\ Count("platform_suspend") = 1 /\ Count("arch_suspend") = 1
          /\ FirstIdx("set_vector") < FirstIdx("disable_ints")
          /\ FirstIdx("disable_ints") < FirstIdx("platform_suspend")
          /\ FirstIdx("platform_suspend") < FirstIdx("arch_suspend")
          /\ Count("clear_vector") = 0 /\ Count("release") = 0
    /\ (Resumable /\ tpc = "transition") => Count("transition") = 0
    /\ (Resumable /\ Count("transition") = 1) =>
          /\ AcquireSucceeded /\ SetSucceeded
          /\ FirstIdx("arch_suspend") < FirstIdx("transition")
          /\ transArgs = <<target_s_state, sleep_type_a, sleep_type_b>>

C19_Witness ==
    /\ tpc = "transition_check"
    /\ target_s_state = 3
    /\ wakeVector = 2
    /\ registers_ptr
    /\ transArgs = <<3, 1, 0>>

\* C20: interrupt masking is balanced on every path of suspend_thread:
\* when it returns interrupts are enabled; an exit before the save step
\* (acquire, lookup or set failure) never disables interrupts nor calls
\* platform_suspend or arch_suspend; the unwind (wake-vector clear, bootstrap
\* release) runs only after interrupts have been re-enabled.
C20_IntsBalanced ==
    /\ (tpc \in {"unwind_wake", "unwind_boot", "exited"} =>
          /\ ints
          /\ Count("disable_ints") = Count("enable_ints"))
    /\ (failed \in EarlyFailures =>
          /\ ints
          /\ Count("disable_ints") = 0
          /\ Count("platform_suspend") = 0 /\ Count("arch_suspend") = 0)
    /\ (Count("disable_ints") = 1 /\ Count("clear_vector") = 1 =>
          /\ Count("enable_ints") = 1
          /\ FirstIdx("enable_ints") < FirstIdx("clear_vector"))

C20_Witness ==
    /\ tpc = "unwind_wake"
    /\ retcode = "ZX_OK"
    /\ ints
    /\ Count("enable_ints") = 1

\* C18: provided every collaborator call returns and the running code is
\* scheduled, every call of the entry point eventually returns a status and
\* every started suspend thread eventually exits with an outcome; no retry
\* loop keeps an attempt from its exit.
C18_EveryRequestReturns ==
    (pc = "check_cmd") ~>
        /\ pc = "done"
        /\ ret # "none"
        /\ (Count("thread_resume") = 1 => tpc = "exited" /\ retcode \in ThreadOutcomes)

C18_Witness ==
    /\ pc = "done"
    /\ ThreadExited
    /\ retcode = "ZX_ERR_NO_MEMORY"
    /\ ret = "ZX_ERR_NO_MEMORY"
    /\ failed = "acquire"
====
